---- MODULE Spec2Model ----
(***************************************************************************)
(* Model of server/agents/base_agent.py: rate_limit_retry, the retry and   *)
(* model-fallback loop around groq_client.chat.completions.create, with    *)
(* its helpers _try_repair_failed_json, _extract_failed_generation,        *)
(* _repair_json and _parse_wait_seconds.                                   *)
(*                                                                         *)
(* Texts are modelled as sequences of lexical tokens modulo insignificant  *)
(* whitespace.  An error text is a record of the markers the code looks    *)
(* for in str(e).  Seconds are integers.  Invocations that run at the same *)
(* time (agents/orchestrator.py, ThreadPoolExecutor) are threads, each     *)
(* with the locals of its own call.                                        *)
(***************************************************************************)
EXTENDS Integers, Sequences, FiniteSets, TLC

\* ------------------------------------------------------------------------
\* Bounds of the model and constants of the program
\* ------------------------------------------------------------------------

\* largest max_retries a caller passes in the model (the program's default is 3)
MaxRetries == 3
\* largest max_retries of the invocations whose upstream words several wait hints
MaxHintRetries == 1
\* _repair_json is applied to every text of at most MaxTextLen tokens
MaxTextLen == 3
\* number of invocations that run at the same time, each in a thread of its own
NThreads == 2
\* the /upload requests in flight and the files of one request
NUploads == 2
MaxFiles == 2

\* a max_retries long enough for the default back-off to pass its clamp
LongRetries == 14

\* min(10 * attempt, 120): the step and the clamp of the default back-off
BackoffStep == 10
MaxWait == 120

PRIMARY_MODEL == "llama-3.3-70b-versatile"
FALLBACK_MODELS == <<"llama-3.1-8b-instant", "llama3-8b-8192">>

\* ------------------------------------------------------------------------
\* JSON texts as token sequences
\* ------------------------------------------------------------------------

DQ == "\"a\""       \* a double-quoted string  "a"
DQB == "\"b\""
DQC == "\"c\""
DQX == "\"x\""
SQ == "'a'"         \* a single-quoted string  'a'
EDQ == "\\\"a\\\""  \* a string whose quotes are escaped  \"a\"
NUM == "1"
ESCNL == "\\n"      \* the two characters backslash, n, between two tokens
\* strings that hold a double quote or a newline
QQ == "\"a\\\"b\""        \* "a\"b"      the quote escaped, as JSON writes it
DQQ == "\"a\\\\\"b\""     \* "a\\"b"     the escape escaped once more (a repr'd text)
SNL == "\"a\\nb\""         \* "a\nb"      the newline escaped, as JSON writes it
UNL == "\"a\\u000ab\""     \* "a\u000ab"  the newline as a \u escape
RAWNL == "\"a\nb\""        \* "a, a newline character, b": not a JSON string
APO == "\"a'b\""          \* "a'b"      a string that holds an apostrophe
\* what is left of "a\"b" without its backslash: "a" and the two tokens b, "
BARE == "b"
LONEQ == "\""

\* the tokens json.loads takes for a string
JsonStrings == {DQ, DQB, DQC, DQX, QQ, SNL, UNL, APO}
\* the tokens the pattern "[^"]*" matches as a whole
SetStrings == {DQ, DQB, DQC, DQX, SNL, UNL, RAWNL, APO}
\* the tokens of the texts _repair_json is given
Tokens ==
  {"{", "}", "[", "]", ",", ":", DQ, DQB, SQ, EDQ, NUM, ESCNL, QQ, DQQ, SNL, UNL, APO}

Min(a, b) == IF a < b THEN a ELSE b

\* text.replace("\\n", "\n").replace('\\"', '"') on one token: a literal \n
\* between tokens becomes white space (dropped from the token sequence), \"a\"
\* becomes "a"; inside a string \n becomes a newline character, \\" becomes \"
\* and \" becomes a quote that ends the string
UnescapeToken(tok) ==
  IF tok = ESCNL THEN <<>>
  ELSE IF tok = EDQ THEN <<DQ>>
  ELSE IF tok = DQQ THEN <<QQ>>
  ELSE IF tok = QQ THEN <<DQ, BARE, LONEQ>>
  ELSE IF tok = SNL THEN <<RAWNL>>
  ELSE <<tok>>

RECURSIVE Unescape(_)
Unescape(t) ==
  IF t = <<>> THEN <<>>
  ELSE UnescapeToken(Head(t)) \o Unescape(Tail(t))

\* The end of a match of  \{\s*("[^"]*"(?:\s*,\s*"[^"]*")*)\s*\}  that starts
\* at t[i] = "{" : the index of its closing brace, 0 when there is no match
RECURSIVE SetItems(_, _)
SetItems(t, j) ==
  \* t[j] is expected to be a double-quoted string
  IF j > Len(t) \/ t[j] \notin SetStrings THEN 0
  ELSE IF j + 1 > Len(t) THEN 0
  ELSE IF t[j + 1] = "}" THEN j + 1
  ELSE IF t[j + 1] = "," THEN SetItems(t, j + 2)
  ELSE 0

SetMatchEnd(t, i) == IF t[i] = "{" THEN SetItems(t, i + 1) ELSE 0

\* ":" not in m.group(1): the modelled string tokens hold no colon, so the
\* group of a match (strings and commas only) never does
GroupHasColon(t, i, j) == \E k \in (i + 1)..(j - 1) : t[k] = ":"

\* re.sub(set pattern, lambda m: "[" + group + "]" if no colon else m.group(0))
RECURSIVE SetToArrayFrom(_, _)
SetToArrayFrom(t, i) ==
  IF i > Len(t) THEN <<>>
  ELSE LET j == SetMatchEnd(t, i) IN
       IF j = 0 THEN <<t[i]>> \o SetToArrayFrom(t, i + 1)
       ELSE IF GroupHasColon(t, i, j)
            THEN SubSeq(t, i, j) \o SetToArrayFrom(t, j + 1)
            ELSE <<"[">> \o SubSeq(t, i + 1, j - 1) \o <<"]">>
                 \o SetToArrayFrom(t, j + 1)

\* the rewriting of set literals left out
_set_to_array_never(t) == t
_set_to_array(t) == SetToArrayFrom(t, 1)

\* re.sub(r",\s*([}\]])", r"\1", t)
RECURSIVE StripTrailingCommas(_)
StripTrailingCommas(t) ==
  IF t = <<>> THEN <<>>
  ELSE IF Head(t) = "," /\ Len(t) >= 2 /\ t[2] \in {"}", "]"}
       THEN StripTrailingCommas(Tail(t))
       ELSE <<Head(t)>> \o StripTrailingCommas(Tail(t))

\* json.loads: a recursive-descent parse.  ParseValue(t, i) is the index after
\* the value that starts at t[i], 0 when none does.
RECURSIVE ParseValue(_, _), ParseMembers(_, _), ParseElems(_, _)
ParseValue(t, i) ==
  IF i > Len(t) THEN 0
  ELSE IF t[i] \in JsonStrings \cup {NUM} THEN i + 1
  ELSE IF t[i] = "{" THEN
         IF i + 1 <= Len(t) /\ t[i + 1] = "}" THEN i + 2 ELSE ParseMembers(t, i + 1)
  ELSE IF t[i] = "[" THEN
         IF i + 1 <= Len(t) /\ t[i + 1] = "]" THEN i + 2 ELSE ParseElems(t, i + 1)
  ELSE 0

\* string : value ( , string : value )* }
ParseMembers(t, i) ==
  IF i + 1 > Len(t) \/ t[i] \notin JsonStrings \/ t[i + 1] # ":" THEN 0
  ELSE LET j == ParseValue(t, i + 2) IN
       IF j = 0 \/ j > Len(t) THEN 0
       ELSE IF t[j] = "}" THEN j + 1
       ELSE IF t[j] = "," THEN ParseMembers(t, j + 1)
       ELSE 0

\* value ( , value )* ]
ParseElems(t, i) ==
  LET j == ParseValue(t, i) IN
  IF j = 0 \/ j > Len(t) THEN 0
  ELSE IF t[j] = "]" THEN j + 1
  ELSE IF t[j] = "," THEN ParseElems(t, j + 1)
  ELSE 0

\* json.loads(t) succeeds: one value, and nothing after it
JsonLoads(t) == ParseValue(t, 1) = Len(t) + 1

\* t.replace("'", '"'): 'a' becomes "a", and the apostrophe of "a'b" becomes
\* a quote that ends the string
RECURSIVE SingleToDouble(_)
SingleToDouble(t) ==
  IF t = <<>> THEN <<>>
  ELSE (IF Head(t) = SQ THEN <<DQ>>
        ELSE IF Head(t) = APO THEN <<DQ, BARE, LONEQ>>
        ELSE <<Head(t)>>) \o SingleToDouble(Tail(t))

NoText == <<"None">>

\* _repair_json returning the rewritten text without parsing it
_repair_json_unparsed(text) == StripTrailingCommas(_set_to_array(Unescape(text)))

\* json.dumps(json.loads(t)) for a text json.loads accepts: the same tokens,
\* a string's newline written as \n whatever the escape that was read.  (No
\* modelled text holds an object with a key twice.)
JsonDumps(t) == [i \in 1..Len(t) |-> IF t[i] = UNL THEN SNL ELSE t[i]]

\* _repair_json replacing the single quotes before it parses
_repair_json_quotes_first(text) ==
  LET t2 == SingleToDouble(StripTrailingCommas(_set_to_array(Unescape(text))))
  IN IF JsonLoads(t2) THEN JsonDumps(t2) ELSE NoText

\* _repair_json(text): the repaired JSON text, NoText for None
_repair_json(text) ==
  LET t == StripTrailingCommas(_set_to_array(Unescape(text)))
      t2 == SingleToDouble(t)
  IN IF JsonLoads(t) THEN JsonDumps(t)
     ELSE IF JsonLoads(t2) THEN JsonDumps(t2)
     ELSE NoText

\* ------------------------------------------------------------------------
\* Errors of the upstream client, by the markers the code searches in str(e)
\* ------------------------------------------------------------------------

NoHint == <<>>

\* msg: the rest of the text; jvf: holds "json_validate_failed"; has_fg, fg: the
\* 'failed_generation': '...' field and its value; rl: holds "429" or
\* "rate_limit"; tpd: holds "tokens per day" or "TPD"; hint: the numbers of
\* "try again in <m>m<s>s", <<m, s>>, or of "try again in <s>s", <<s>>
ErrText(msg, jvf, has_fg, fg, rl, tpd, hint) ==
  [msg |-> msg, jvf |-> jvf, has_fg |-> has_fg, fg |-> fg, rl |-> rl,
   tpd |-> tpd, hint |-> hint]

NoErrText == ErrText("", FALSE, FALSE, <<>>, FALSE, FALSE, NoHint)

ConnErr == ErrText("Connection error", FALSE, FALSE, <<>>, FALSE, FALSE, NoHint)
RateErr == ErrText("Error code: 429 rate_limit_exceeded", FALSE, FALSE, <<>>, TRUE, FALSE, NoHint)
RateHintErr ==
  ErrText("Error code: 429 rate_limit_exceeded", FALSE, FALSE, <<>>, TRUE, FALSE, <<1, 5>>)
\* a rate-limit error that words a wait hint
HintErr(hint) ==
  ErrText("Error code: 429 rate_limit_exceeded", FALSE, FALSE, <<>>, TRUE, FALSE, hint)
\* "try again in 1m5s", "try again in 150s", "try again in 45s"
WaitHints == {<<1, 5>>, <<150>>, <<45>>}
QuotaErr ==
  ErrText("Error code: 429 rate_limit_exceeded", FALSE, FALSE, <<>>, TRUE, TRUE, NoHint)
\* a text that speaks of "TPD" and holds neither "429" nor "rate_limit"
ConnQuotaErr == ErrText("Connection error", FALSE, FALSE, <<>>, FALSE, TRUE, NoHint)

\* {"a", "a"} in place of an array: repairable
SetPayload == <<"{", DQ, ",", DQ, "}">>
\* a generation cut short: not repairable
CutPayload == <<"{", DQ, ":">>

JsonErr(fg) == ErrText("Error code: 400", TRUE, TRUE, fg, FALSE, FALSE, NoHint)
\* a json_validate_failed error whose text also holds "429" and "TPD" (the
\* generation it quotes speaks of them)
JsonQuotaErr == ErrText("Error code: 400", TRUE, TRUE, CutPayload, TRUE, TRUE, NoHint)
\* a json_validate_failed error whose text also holds "429", the generation
\* it quotes being a set in place of an array
JsonRateErr == ErrText("Error code: 400", TRUE, TRUE, SetPayload, TRUE, FALSE, NoHint)

\* a json_validate_failed error without a failed_generation field, and one
\* whose field is the empty text
NoFieldErr == ErrText("Error code: 400", TRUE, FALSE, <<>>, FALSE, FALSE, NoHint)
EmptyFieldErr == ErrText("Error code: 400", TRUE, TRUE, <<>>, FALSE, FALSE, NoHint)

\* the errors the upstream client raises: of every class, the rate-limit ones
\* without a wait hint
UpstreamErrors ==
  {ConnErr, ConnQuotaErr, RateErr, QuotaErr, JsonErr(SetPayload),
   JsonErr(CutPayload), JsonQuotaErr, JsonRateErr}
\* and those it raises for the call without response_format
RetryErrors == {ConnErr, RateErr, QuotaErr}

\* the errors of an upstream that is rate limited, with and without a wait hint
BackoffErrors == {ConnErr, RateErr, RateHintErr, JsonErr(CutPayload)}
BackoffRetryErrors == {ConnErr}

\* the errors of an upstream whose structured output fails, with and without
\* the generation that failed
MalformedErrors ==
  {NoFieldErr, EmptyFieldErr, JsonErr(CutPayload), JsonErr(SetPayload), RateErr}

\* the errors of an upstream whose rate-limit errors word the hints of WaitHints
HintErrors == {ConnErr, RateErr, JsonErr(CutPayload)} \cup {HintErr(h) : h \in WaitHints}

\* the object a raise statement raises: an upstream error with the number of
\* the call that raised it, None (no exception), or the TypeError of "raise None"
Exc(type, text, call) == [type |-> type, text |-> text, call |-> call]
None == Exc("None", NoErrText, 0)
TypeErrorExc == Exc("TypeError", NoErrText, 0)

\* _SyntheticChoice(content): index 0, finish_reason "stop", and the
\* _SyntheticMessage that holds the content
Choice(content) ==
  [index |-> 0, finish_reason |-> "stop",
   message |-> [role |-> "assistant", content |-> content]]

\* a completion: the upstream's (id "chatcmpl", with the number of the call that
\* returned it) or a _SyntheticCompletion (id "repaired"); choices is a list of
\* one choice
Completion(id, call, content) ==
  [id |-> id, call |-> call, choices |-> <<Choice(content)>>]
NoResult == [id |-> "None", call |-> 0, choices |-> <<>>]
_SyntheticCompletion(content) == Completion("repaired", 0, content)

\* chat_completion.choices[0].message.content, as the callers read it
ContentOf(completion) == completion.choices[1].message.content

\* what the upstream writes: with response_format {"type": "json_object"} a
\* JSON object (a generation that is not one is the json_validate_failed
\* error), without it also free-form text around the object
JsonContent == <<"{", DQ, ":", NUM, "}">>
ProseContent == <<"Here", "is", "the", "JSON", ":", "{", DQ, ":", NUM, "}">>
UpstreamContents(fmt) == IF fmt THEN {JsonContent} ELSE {JsonContent, ProseContent}

\* _extract_failed_generation(error_str): the value of the field, NoText for None
_extract_failed_generation(error_str) ==
  IF error_str.has_fg THEN error_str.fg ELSE NoText

\* _try_repair_failed_json with its guard "if not raw" turned round
_try_repair_inverted(error_str) ==
  LET raw == _extract_failed_generation(error_str) IN
  IF raw # NoText /\ raw # <<>> THEN NoResult
  ELSE _SyntheticCompletion(_repair_json(raw))

\* _try_repair_failed_json wrapping the text it extracted, not the repaired one
_try_repair_raw(error_str) ==
  LET raw == _extract_failed_generation(error_str) IN
  IF raw = NoText \/ raw = <<>> THEN NoResult
  ELSE LET repaired == _repair_json(raw) IN
       IF repaired # NoText THEN _SyntheticCompletion(raw) ELSE NoResult

\* _try_repair_failed_json wrapping the empty text when it has no repair
_try_repair_or_empty(error_str) ==
  LET raw == _extract_failed_generation(error_str)
      repaired == IF raw = NoText \/ raw = <<>> THEN NoText ELSE _repair_json(raw)
  IN _SyntheticCompletion(IF repaired = NoText THEN <<>> ELSE repaired)

\* _try_repair_failed_json(error_str, agent_name)
_try_repair_failed_json(error_str) ==
  LET raw == _extract_failed_generation(error_str) IN
  IF raw = NoText \/ raw = <<>> THEN NoResult
  ELSE LET repaired == _repair_json(raw) IN
       IF repaired # NoText THEN _SyntheticCompletion(repaired) ELSE NoResult

\* _parse_wait_seconds without its min(total, 120)
_parse_wait_unclamped(error_message, default) ==
  LET hint == error_message.hint IN
  IF hint # NoHint
  THEN (IF Len(hint) = 2 THEN hint[1] ELSE 0) * 60 + hint[Len(hint)]
  ELSE default

\* _parse_wait_seconds(error_message, default): group 1 (the minutes) is
\* optional, group 2 the seconds
_parse_wait_seconds(error_message, default) ==
  LET hint == error_message.hint IN
  IF hint # NoHint
  THEN LET minutes == IF Len(hint) = 2 THEN hint[1] ELSE 0
           seconds == hint[Len(hint)]
       IN Min(minutes * 60 + seconds, MaxWait)
  ELSE default

\* the json markers looked for after the rate-limit ones
IsJsonFailure_AfterRateLimit(err_str) == (err_str.jvf \/ err_str.has_fg) /\ ~err_str.rl
\* "json_validate_failed" in err_str or "failed_generation" in err_str
IsJsonFailure(err_str) == err_str.jvf \/ err_str.has_fg
\* is_rate_limit taking every error for a rate limit
is_rate_limit_any(err_str) == TRUE
\* "429" in err_str or "rate_limit" in err_str.lower()
is_rate_limit(err_str) == err_str.rl
\* the daily-limit test left out
IsDailyLimit_Never(err_str) == FALSE
\* "tokens per day" in err_str.lower() or "TPD" in err_str
IsDailyLimit(err_str) == err_str.tpd

\* ------------------------------------------------------------------------
\* rate_limit_retry(groq_client, create_kwargs, max_retries, agent_name)
\* ------------------------------------------------------------------------

VARIABLES
  pc,             \* "idle", "create", "create_no_fmt", "sleep", "returned", "raised"
  create_kwargs,  \* the caller's dict: its "model" and whether it holds "response_format"
  max_retries,
  models_to_try,
  mi,             \* the place in models_to_try of the outer loop's model
  kwargs,         \* {**create_kwargs, "model": model}
  attempt,
  last_exc,
  wait,           \* the seconds the pending time.sleep is called with
  result,         \* the completion returned to the caller
  raised,         \* the exception that reached the caller
  raised_at,      \* the statement that raised it: "reraise" (the bare raise of
                  \* the except block) or "exhausted" (raise last_exc)
  log,            \* history: the upstream calls and the sleeps, in order
  payload,        \* _repair_json on its own: the text it is given,
  once,           \* what it returns for payload,
  twice,          \* and what it returns for once
  cur,            \* the thread that runs: the variables above are its locals
  frames,         \* the locals of the threads that do not run
  source_diagrams,  \* orchestrator.multimodal_agent.source_diagrams: the list
                    \* object the attribute is bound to
  lists,          \* the contents of the list objects
  upload          \* the locals of each call of handle_multiple_uploads

vars == <<pc, create_kwargs, max_retries, models_to_try, mi, kwargs, attempt,
          last_exc, wait, result, raised, raised_at, log, payload, once, twice,
          cur, frames, source_diagrams, lists, upload>>

\* the "model" values callers pass: the key left out, the primary model, and a
\* model that is also in FALLBACK_MODELS
NoModel == "(no model key)"
CallerModels == {NoModel, PRIMARY_MODEL, FALLBACK_MODELS[2]}
CallerKwargs == [model : CallerModels, response_format : BOOLEAN]
\* the max_retries values callers pass
CallerRetries == (0 - 1)..MaxRetries
BackoffRetries == CallerRetries \cup {LongRetries}
HintRetries == 1..MaxHintRetries

\* create_kwargs.get("model", PRIMARY_MODEL)
GetModel(cw) == IF cw.model = NoModel THEN PRIMARY_MODEL ELSE cw.model

\* [create_kwargs.get("model", PRIMARY_MODEL)] + FALLBACK_MODELS
ModelsToTry(cw) == <<GetModel(cw)>> \o FALLBACK_MODELS

\* {**create_kwargs, "model": model}
BindModel(cw, model) == [cw EXCEPT !.model = model]

\* {k: v for k, v in kwargs.items() if k != "response_format"}
kwargs_no_fmt(kw) == [kw EXCEPT !.response_format = FALSE]

\* the default back-off doubling from attempt to attempt
DefaultWait_Exponential(n) == Min(BackoffStep * (2 ^ (n - 1)), MaxWait)
\* the default back-off without its clamp
DefaultWait_Unclamped(n) == BackoffStep * n
\* min(10 * attempt, 120)
DefaultWait(n) == Min(BackoffStep * n, MaxWait)

\* history records
\* (out: the content of the completion a call returned)
CallEvent(kw, pos, n, relaxed, ok, err, out) ==
  [type |-> "call", model |-> kw.model, fmt |-> kw.response_format, pos |-> pos,
   attempt |-> n, relaxed |-> relaxed, ok |-> ok, err |-> err, out |-> out, dur |-> 0]
SleepEvent(pos, n, dur) ==
  [type |-> "sleep", model |-> "", fmt |-> FALSE, pos |-> pos, attempt |-> n,
   relaxed |-> FALSE, ok |-> TRUE, err |-> NoErrText, out |-> <<>>, dur |-> dur]

\* a time.sleep that did not return: an exception was raised in it
CancelEvent(pos, n) ==
  [type |-> "cancel", model |-> "", fmt |-> FALSE, pos |-> pos, attempt |-> n,
   relaxed |-> FALSE, ok |-> FALSE, err |-> NoErrText, out |-> <<>>, dur |-> 0]

Calls == SelectSeq(log, LAMBDA ev : ev.type = "call")
NCalls == Len(Calls)

Threads == 1..NThreads

\* the locals of a call of rate_limit_retry: those of the running thread, and
\* those of a thread that has not called it yet
Frame ==
  [pc |-> pc, create_kwargs |-> create_kwargs, max_retries |-> max_retries,
   models_to_try |-> models_to_try, mi |-> mi, kwargs |-> kwargs,
   attempt |-> attempt, last_exc |-> last_exc, wait |-> wait, result |-> result,
   raised |-> raised, raised_at |-> raised_at, log |-> log]
IdleFrame ==
  [pc |-> "idle", create_kwargs |-> [model |-> NoModel, response_format |-> FALSE],
   max_retries |-> 0, models_to_try |-> <<>>, mi |-> 0,
   kwargs |-> [model |-> NoModel, response_format |-> FALSE],
   attempt |-> 0, last_exc |-> None, wait |-> 0, result |-> NoResult,
   raised |-> None, raised_at |-> "", log |-> <<>>]

\* the /upload requests the threaded server handles at once
Uploads == 1..NUploads

\* a file with a picture in it (an image, a PDF page, a slide, a video frame)
\* and one without
FileTypes == {"image/png", "text/plain"}
FileLists == UNION {[1..n -> FileTypes] : n \in 1..MaxFiles}

\* the list objects: the one __init__ creates and one for each reset
ListIds == 0..NUploads

\* _extract_image_as_diagram(file_path) and the like: the diagrams of the
\* k-th file of upload u, none for a text file
DiagramsOf(u, files, k) ==
  IF files[k] = "image/png" THEN <<[upload |-> u, file |-> k]>> ELSE <<>>

\* pc: "idle", "processing" (the loop of line 30), "extracting" (inside
\* process, the list loaded and the extraction running), "generated" (after
\* the executor block), "saved", "returned"
IdleUpload ==
  [pc |-> "idle", files |-> <<>>, done |-> 0, target |-> 0, saved |-> <<>>,
   returned |-> <<>>]

NoUploads ==
  /\ source_diagrams = 0
  /\ lists = [id \in ListIds |-> <<>>]
  /\ upload = [u \in Uploads |-> IdleUpload]

Init ==
  /\ NoUploads
  /\ cur = 1
  /\ frames = [t \in Threads |-> IdleFrame]
  /\ pc = "idle"
  /\ create_kwargs = [model |-> NoModel, response_format |-> FALSE]
  /\ max_retries = 0
  /\ models_to_try = <<>>
  /\ mi = 0
  /\ kwargs = [model |-> NoModel, response_format |-> FALSE]
  /\ attempt = 0
  /\ last_exc = None
  /\ wait = 0
  /\ result = NoResult
  /\ raised = None
  /\ raised_at = ""
  /\ log = <<>>
  /\ payload = <<>>
  /\ once = NoText
  /\ twice = NoText

\* "raise last_exc" after the loops: raising None is a TypeError
RaiseLast(exc) == IF exc = None THEN TypeErrorExc ELSE exc

\* NextModel giving up one model early
NextModel_SkipsLast(exc) ==
  IF mi < Len(models_to_try) - 1
  THEN /\ mi' = mi + 1
       /\ kwargs' = BindModel(create_kwargs, models_to_try[mi + 1])
       /\ attempt' = 1
       /\ pc' = "create"
       /\ UNCHANGED <<raised, raised_at>>
  ELSE /\ pc' = "raised"
       /\ raised' = RaiseLast(exc)
       /\ raised_at' = "exhausted"
       /\ UNCHANGED <<mi, kwargs, attempt>>

\* the outer loop goes on from models_to_try[mi]: the next model's first
\* attempt, or "raise last_exc" after the last model
NextModel(exc) ==
  IF mi < Len(models_to_try)
  THEN /\ mi' = mi + 1
       /\ kwargs' = BindModel(create_kwargs, models_to_try[mi + 1])
       /\ attempt' = 1
       /\ pc' = "create"
       /\ UNCHANGED <<raised, raised_at>>
  ELSE /\ pc' = "raised"
       /\ raised' = RaiseLast(exc)
       /\ raised_at' = "exhausted"
       /\ UNCHANGED <<mi, kwargs, attempt>>

\* NextAttempt with range(1, max_retries + 2): one attempt more on each model
NextAttempt_OneMore ==
  IF attempt < max_retries + 1
  THEN /\ attempt' = attempt + 1
       /\ pc' = "create"
       /\ UNCHANGED <<mi, kwargs, raised, raised_at>>
  ELSE NextModel(last_exc)

\* the inner loop goes on after attempt: the next attempt on the model, or the
\* next model
NextAttempt ==
  IF attempt < max_retries
  THEN /\ attempt' = attempt + 1
       /\ pc' = "create"
       /\ UNCHANGED <<mi, kwargs, raised, raised_at>>
  ELSE NextModel(last_exc)

\* the call of rate_limit_retry, up to its first upstream call; with
\* max_retries < 1 both loops end without one
Invoke(cw, mr) ==
  /\ pc = "idle"
  /\ create_kwargs' = cw
  /\ max_retries' = mr
  /\ models_to_try' = ModelsToTry(cw)
  /\ IF mr >= 1
     THEN /\ mi' = 1
          /\ kwargs' = BindModel(cw, ModelsToTry(cw)[1])
          /\ attempt' = 1
          /\ pc' = "create"
          /\ UNCHANGED <<raised, raised_at>>
     ELSE /\ mi' = Len(ModelsToTry(cw))
          /\ kwargs' = BindModel(cw, ModelsToTry(cw)[Len(ModelsToTry(cw))])
          /\ attempt' = 0
          /\ pc' = "raised"
          /\ raised' = RaiseLast(last_exc)
          /\ raised_at' = "exhausted"
  /\ UNCHANGED <<last_exc, wait, result, log>>

\* CreateReturns without its return: the loop goes on after a success
CreateReturns_GoesOn ==
  /\ pc = "create"
  /\ \E content \in UpstreamContents(kwargs.response_format) :
       /\ log' = Append(log, CallEvent(kwargs, mi, attempt, FALSE, TRUE, NoErrText, content))
       /\ result' = Completion("chatcmpl", NCalls + 1, content)
  /\ NextAttempt
  /\ UNCHANGED <<create_kwargs, max_retries, models_to_try, last_exc, wait>>

\* groq_client.chat.completions.create(**kwargs) returns: return result
CreateReturns ==
  /\ pc = "create"
  /\ \E content \in UpstreamContents(kwargs.response_format) :
       /\ log' = Append(log, CallEvent(kwargs, mi, attempt, FALSE, TRUE, NoErrText, content))
       /\ result' = Completion("chatcmpl", NCalls + 1, content)
  /\ pc' = "returned"
  /\ UNCHANGED <<create_kwargs, max_retries, models_to_try, mi, kwargs, attempt,
                 last_exc, wait, raised, raised_at>>

\* groq_client.chat.completions.create(**kwargs) raises e: the except block
CreateRaises(err_str) ==
  /\ pc = "create"
  /\ log' = Append(log, CallEvent(kwargs, mi, attempt, FALSE, FALSE, err_str, <<>>))
  /\ LET e == Exc("APIError", err_str, NCalls + 1) IN
     /\ last_exc' = e
     /\ IF IsJsonFailure(err_str)
        THEN LET repaired == _try_repair_failed_json(err_str) IN
             IF repaired # NoResult
             THEN /\ result' = repaired
                  /\ pc' = "returned"
                  /\ UNCHANGED <<mi, kwargs, attempt, wait, raised, raised_at>>
             ELSE IF kwargs.response_format
             THEN /\ pc' = "create_no_fmt"
                  /\ UNCHANGED <<mi, kwargs, attempt, wait, raised, raised_at, result>>
             ELSE /\ NextModel(e)
                  /\ UNCHANGED <<wait, result>>
        ELSE IF ~is_rate_limit(err_str)
        THEN /\ pc' = "raised"
             /\ raised' = e
             /\ raised_at' = "reraise"
             /\ UNCHANGED <<mi, kwargs, attempt, wait, result>>
        ELSE IF IsDailyLimit(err_str)
        THEN /\ wait' = _parse_wait_seconds(err_str, DefaultWait(attempt))
             /\ NextModel(e)
             /\ UNCHANGED result
        ELSE /\ wait' = _parse_wait_seconds(err_str, DefaultWait(attempt))
             /\ pc' = "sleep"
             /\ UNCHANGED <<mi, kwargs, attempt, raised, raised_at, result>>
  /\ UNCHANGED <<create_kwargs, max_retries, models_to_try>>

\* time.sleep(wait), then the inner loop's next round
Sleep ==
  /\ pc = "sleep"
  /\ log' = Append(log, SleepEvent(mi, attempt, wait))
  /\ NextAttempt
  /\ UNCHANGED <<create_kwargs, max_retries, models_to_try, last_exc, wait, result>>

\* groq_client.chat.completions.create(**kwargs_no_fmt) returns: return result
RetryReturns ==
  /\ pc = "create_no_fmt"
  /\ \E content \in UpstreamContents(FALSE) :
       /\ log' = Append(log, CallEvent(kwargs_no_fmt(kwargs), mi, attempt, TRUE, TRUE,
                                       NoErrText, content))
       /\ result' = Completion("chatcmpl", NCalls + 1, content)
  /\ pc' = "returned"
  /\ UNCHANGED <<create_kwargs, max_retries, models_to_try, mi, kwargs, attempt,
                 last_exc, wait, raised, raised_at>>

\* RetryRaises taking response_format out of the caller's create_kwargs too
RetryRaises_StripsCaller(err_str) ==
  /\ pc = "create_no_fmt"
  /\ log' = Append(log, CallEvent(kwargs_no_fmt(kwargs), mi, attempt, TRUE, FALSE,
                                  err_str, <<>>))
  /\ create_kwargs' = kwargs_no_fmt(create_kwargs)
  /\ IF mi < Len(models_to_try)
     THEN /\ mi' = mi + 1
          /\ kwargs' = BindModel(kwargs_no_fmt(create_kwargs), models_to_try[mi + 1])
          /\ attempt' = 1
          /\ pc' = "create"
          /\ UNCHANGED <<raised, raised_at>>
     ELSE /\ pc' = "raised"
          /\ raised' = RaiseLast(last_exc)
          /\ raised_at' = "exhausted"
          /\ UNCHANGED <<mi, kwargs, attempt>>
  /\ UNCHANGED <<max_retries, models_to_try, last_exc, wait, result>>

\* groq_client.chat.completions.create(**kwargs_no_fmt) raises: "except
\* Exception: pass", then break
RetryRaises(err_str) ==
  /\ pc = "create_no_fmt"
  /\ log' = Append(log, CallEvent(kwargs_no_fmt(kwargs), mi, attempt, TRUE, FALSE,
                                  err_str, <<>>))
  /\ NextModel(last_exc)
  /\ UNCHANGED <<create_kwargs, max_retries, models_to_try, last_exc, wait, result>>

\* one invocation with max_retries of retries, and an upstream that raises the
\* errors of errs (and of retry_errs for the call without response_format); it
\* words a wait hint only to the invocations of at most MaxRetries attempts
NextOf(retries, errs, retry_errs) ==
  /\ \/ \E cw \in CallerKwargs, mr \in retries : Invoke(cw, mr)
     \/ CreateReturns
     \/ \E err_str \in errs :
           /\ err_str.hint # NoHint => max_retries <= MaxRetries
           /\ CreateRaises(err_str)
     \/ Sleep
     \/ RetryReturns
     \/ \E err_str \in retry_errs : RetryRaises(err_str)
  /\ UNCHANGED <<payload, once, twice, cur, frames, source_diagrams, lists, upload>>

Next == NextOf(CallerRetries, UpstreamErrors, RetryErrors)
Spec == Init /\ [][Next]_vars

BackoffNext == NextOf(BackoffRetries, BackoffErrors, BackoffRetryErrors)
BackoffSpec == Init /\ [][BackoffNext]_vars

HintNext == NextOf(HintRetries, HintErrors, BackoffRetryErrors)
HintSpec == Init /\ [][HintNext]_vars

\* ------------------------------------------------------------------------
\* A cancellation (KeyboardInterrupt, a task's cancellation) raised in the
\* thread while it is in time.sleep(wait)
\* ------------------------------------------------------------------------

\* the invocations against an upstream whose structured output fails
MalformedNext == NextOf(HintRetries, MalformedErrors, BackoffRetryErrors)
MalformedSpec == Init /\ [][MalformedNext]_vars

Cancelled == Exc("Cancelled", NoErrText, 0)

\* SleepCancelled for a time.sleep inside a try whose handler passes: the
\* inner loop goes on
SleepCancelled_Swallowed ==
  /\ pc = "sleep"
  /\ log' = Append(log, CancelEvent(mi, attempt))
  /\ NextAttempt
  /\ UNCHANGED <<create_kwargs, max_retries, models_to_try, last_exc, wait, result,
                 payload, once, twice, cur, frames, source_diagrams, lists, upload>>

\* time.sleep(wait) raises: the statement stands in the except block, under
\* no try of its own, so the exception leaves rate_limit_retry
SleepCancelled ==
  /\ pc = "sleep"
  /\ log' = Append(log, CancelEvent(mi, attempt))
  /\ pc' = "raised"
  /\ raised' = Cancelled
  /\ raised_at' = "sleep"
  /\ UNCHANGED <<create_kwargs, max_retries, models_to_try, mi, kwargs, attempt,
                 last_exc, wait, result, payload, once, twice, cur, frames, source_diagrams, lists, upload>>

CancelNext == NextOf(HintRetries, HintErrors, BackoffRetryErrors) \/ SleepCancelled
CancelSpec == Init /\ [][CancelNext]_vars

\* ------------------------------------------------------------------------
\* _repair_json(text) on its own, and on what it returned
\* ------------------------------------------------------------------------

\* { s1, s2, ... } and [ s1, s2, ... ] for the strings of items
RECURSIVE Listed(_)
Listed(items) ==
  IF Len(items) = 1 THEN items ELSE <<Head(items), ",">> \o Listed(Tail(items))
Braced(items) == <<"{">> \o Listed(items) \o <<"}">>
Bracketed(items) == <<"[">> \o Listed(items) \o <<"]">>
\* {"x": value}
Keyed(value) == <<"{", DQX, ":">> \o value \o <<"}">>

\* the lists of one to three strings out of "a", "b", "c"
StringLists == UNION {[1..n -> {DQ, DQB, DQC}] : n \in 1..3}

\* every text of at most n tokens
AllTexts(n) == UNION {[1..k -> Tokens] : k \in 0..n}

\* longer texts: set literals alone and as a value, trailing commas, single
\* quotes, escaped quotes, and strings that hold a quote or a newline
ExampleTexts ==
  {Braced(items) : items \in StringLists}
    \cup {Keyed(Braced(items)) : items \in StringLists}
    \cup {Keyed(<<NUM, ",">>), Keyed(Bracketed(<<DQ, DQB>>) \o <<",">>),
          <<"[", NUM, ",", NUM, ",", "]">>, <<"{", SQ, ":", NUM, "}">>,
          <<"{", EDQ, ":", NUM, "}", ESCNL>>, Keyed(<<DQQ>>), Keyed(<<UNL>>),
          Keyed(<<QQ>>), Keyed(<<SNL>>), Braced(<<UNL, DQB>>), CutPayload,
          Keyed(<<APO, ",">>), Braced(<<APO, DQ>>), <<"{", SQ, ":", APO, "}">>}

RepairTexts == AllTexts(MaxTextLen) \cup ExampleTexts

RepairInit ==
  /\ NoUploads
  /\ pc = "text"
  /\ create_kwargs = [model |-> NoModel, response_format |-> FALSE]
  /\ max_retries = 0
  /\ models_to_try = <<>>
  /\ mi = 0
  /\ kwargs = [model |-> NoModel, response_format |-> FALSE]
  /\ attempt = 0
  /\ last_exc = None
  /\ wait = 0
  /\ result = NoResult
  /\ raised = None
  /\ raised_at = ""
  /\ log = <<>>
  /\ payload \in RepairTexts
  /\ once = NoText
  /\ twice = NoText
  /\ cur = 1
  /\ frames = [t \in Threads |-> IdleFrame]

\* once = _repair_json(payload)
Repair ==
  /\ pc = "text"
  /\ once' = _repair_json(payload)
  /\ pc' = "repaired"
  /\ UNCHANGED <<create_kwargs, max_retries, models_to_try, mi, kwargs, attempt,
                 last_exc, wait, result, raised, raised_at, log, payload, twice,
                 cur, frames, source_diagrams, lists, upload>>

\* twice = _repair_json(once), when the first call returned a text
RepairAgain ==
  /\ pc = "repaired"
  /\ once # NoText
  /\ twice' = _repair_json(once)
  /\ pc' = "repaired_again"
  /\ UNCHANGED <<create_kwargs, max_retries, models_to_try, mi, kwargs, attempt,
                 last_exc, wait, result, raised, raised_at, log, payload, once,
                 cur, frames, source_diagrams, lists, upload>>

RepairNext == Repair \/ RepairAgain
RepairSpec == RepairInit /\ [][RepairNext]_vars

\* ------------------------------------------------------------------------
\* Several invocations at the same time: executor.submit gives each a thread,
\* and a thread's locals are its own
\* ------------------------------------------------------------------------

\* the locals of thread t
Local(t) == IF t = cur THEN Frame ELSE frames[t]
Ended(f) == f.pc \in {"returned", "raised"}

\* the running thread's locals become those of frame f, last_exc left as the
\* thread before had it (a name of the module, not a local)
Restore_SharedLastExc(f) ==
  /\ pc' = f.pc
  /\ create_kwargs' = f.create_kwargs
  /\ max_retries' = f.max_retries
  /\ models_to_try' = f.models_to_try
  /\ mi' = f.mi
  /\ kwargs' = f.kwargs
  /\ attempt' = f.attempt
  /\ UNCHANGED last_exc
  /\ wait' = f.wait
  /\ result' = f.result
  /\ raised' = f.raised
  /\ raised_at' = f.raised_at
  /\ log' = f.log

\* the running thread's locals become those of frame f
Restore(f) ==
  /\ pc' = f.pc
  /\ create_kwargs' = f.create_kwargs
  /\ max_retries' = f.max_retries
  /\ models_to_try' = f.models_to_try
  /\ mi' = f.mi
  /\ kwargs' = f.kwargs
  /\ attempt' = f.attempt
  /\ last_exc' = f.last_exc
  /\ wait' = f.wait
  /\ result' = f.result
  /\ raised' = f.raised
  /\ raised_at' = f.raised_at
  /\ log' = f.log

\* Switch for a time.sleep that keeps the interpreter to its thread
Switch_NotWhileSleeping(t) ==
  /\ t # cur
  /\ pc # "sleep"
  /\ ~Ended(frames[t])
  /\ frames' = [frames EXCEPT ![cur] = Frame, ![t] = IdleFrame]
  /\ cur' = t
  /\ Restore(frames[t])
  /\ UNCHANGED <<payload, once, twice, source_diagrams, lists, upload>>

\* the scheduler takes the interpreter from the running thread, wherever it is
\* (in time.sleep and in the upstream call too), and gives it to thread t,
\* which has not ended
Switch(t) ==
  /\ t # cur
  /\ ~Ended(frames[t])
  /\ frames' = [frames EXCEPT ![cur] = Frame, ![t] = IdleFrame]
  /\ cur' = t
  /\ Restore(frames[t])
  /\ UNCHANGED <<payload, once, twice, source_diagrams, lists, upload>>

\* the requests of the threads: the agents' model with response_format (the
\* graph and the quiz generation), and one attempt a model
ConcKwargs == {[model |-> PRIMARY_MODEL, response_format |-> TRUE]}
ConcRetries == {1}
ConcErrors == {RateErr, JsonErr(CutPayload)}

\* a step of the running thread
ConcStep ==
  /\ \/ \E cw \in ConcKwargs, mr \in ConcRetries : Invoke(cw, mr)
     \/ CreateReturns
     \/ \E err_str \in ConcErrors : CreateRaises(err_str)
     \/ Sleep
     \/ RetryReturns
     \/ \E err_str \in BackoffRetryErrors : RetryRaises(err_str)
  /\ UNCHANGED <<payload, once, twice, cur, frames, source_diagrams, lists, upload>>

ConcNext == ConcStep \/ \E t \in Threads : Switch(t)
ConcSpec == Init /\ [][ConcNext]_vars
\* the scheduler lets a thread that can run do so, the upstream answers every
\* call, and time.sleep returns
ConcFairSpec == ConcSpec /\ WF_vars(ConcStep) /\ WF_vars(ConcNext)

\* ------------------------------------------------------------------------
\* Vocabulary of the properties, read off the history
\* ------------------------------------------------------------------------

CallIdx == {i \in 1..Len(log) : log[i].type = "call"}
SleepIdx == {i \in 1..Len(log) : log[i].type = "sleep"}
\* the number of the upstream call that log[i] records
CallNo(i) == Cardinality({k \in 1..i : log[k].type = "call"})
FailedIdx == {i \in CallIdx : ~log[i].ok}
RegularIdx == {i \in CallIdx : ~log[i].relaxed}
\* the exception call log[i] raised
RaisedBy(i) == Exc("APIError", log[i].err, CallNo(i))

\* the classes of an error text, by its markers
HasJsonMarker(t) == t.jvf \/ t.has_fg
HasRateMarker(t) == t.rl
HasQuotaMarker(t) == t.tpd
Fatal(t) == ~HasJsonMarker(t) /\ ~HasRateMarker(t)
RateLimited(t) == ~HasJsonMarker(t) /\ HasRateMarker(t) /\ ~HasQuotaMarker(t)
QuotaExhausted(t) == ~HasJsonMarker(t) /\ HasRateMarker(t) /\ HasQuotaMarker(t)
Repairable(t) == t.has_fg /\ t.fg # <<>> /\ _repair_json(t.fg) # NoText

Returned == pc = "returned"
\* the exhaustion failure: "raise last_exc" raising an upstream error
ExhaustionFailure ==
  pc = "raised" /\ raised_at = "exhausted" /\ raised.type = "APIError"
FatalPropagation == pc = "raised" /\ raised_at = "reraise"
PrimaryOfRequest == models_to_try[1]

\* ------------------------------------------------------------------------
\* C1
\* ------------------------------------------------------------------------

\* C1: every call bound to the primary model comes before any call bound to
\* another model, the calls bound to fallback models follow the order of
\* FALLBACK_MODELS, and once the loop has left a model no later call is bound
\* to it.
C1_PrimaryFirstNoReturn ==
  \A i \in CallIdx : \A j \in CallIdx :
    i < j =>
      /\ log[j].model = PrimaryOfRequest => log[i].model = PrimaryOfRequest
      /\ \A a \in 1..Len(FALLBACK_MODELS) : \A b \in 1..Len(FALLBACK_MODELS) :
           (/\ log[i].model = FALLBACK_MODELS[a] /\ log[j].model = FALLBACK_MODELS[b]
            /\ log[i].pos > 1 /\ log[j].pos > 1) => a <= b
      /\ log[i].pos < log[j].pos => log[i].model # log[j].model

\* ------------------------------------------------------------------------
\* C2
\* ------------------------------------------------------------------------

\* the model at place pos was tried, and its last call is a failure after which
\* the loop leaves the model: the failed call without response_format, an
\* unrepaired malformed output with no response_format to drop, a daily limit,
\* or a rate limit on attempt max_retries
Abandoned(pos) ==
  LET at == {i \in CallIdx : log[i].pos = pos} IN
  /\ at # {}
  /\ LET last == log[CHOOSE i \in at : \A k \in at : k <= i] IN
     /\ ~last.ok
     /\ \/ last.relaxed
        \/ HasJsonMarker(last.err) /\ ~Repairable(last.err) /\ ~last.fmt
        \/ QuotaExhausted(last.err)
        \/ RateLimited(last.err) /\ last.attempt = max_retries

\* C2: the exhaustion failure is raised only when every model of the trial
\* order has been tried and abandoned.
C2_ExhaustedOnlyAfterAllModels ==
  ExhaustionFailure => \A pos \in 1..Len(models_to_try) : Abandoned(pos)

\* the exhaustion failure, reached through a spent budget, a daily limit and a
\* failed call without response_format
C2_Witness ==
  /\ ExhaustionFailure
  /\ \E i \in FailedIdx : RateLimited(log[i].err) /\ log[i].attempt = max_retries
  /\ \E i \in FailedIdx : QuotaExhausted(log[i].err)
  /\ \E i \in FailedIdx : log[i].relaxed

\* ------------------------------------------------------------------------
\* C3
\* ------------------------------------------------------------------------

\* C3: the exhaustion failure carries the error of the last failed upstream
\* call of the invocation, a call on the last model of the trial order, the
\* call without response_format included.
C3_RaisesLastObservedError ==
  ExhaustionFailure =>
    LET last == CHOOSE i \in CallIdx : \A k \in CallIdx : k <= i IN
    /\ ~log[last].ok
    /\ log[last].pos = Len(models_to_try)
    /\ raised = RaisedBy(last)

\* ------------------------------------------------------------------------
\* C4
\* ------------------------------------------------------------------------

\* C4: a regular attempt that fails with a Fatal error ends the invocation: the
\* call is the last event (no call, no sleep after it) and its error is what
\* the bare raise gives the caller.
C4_FatalPropagatesAtOnce ==
  \A i \in RegularIdx :
    (~log[i].ok /\ Fatal(log[i].err)) =>
      /\ i = Len(log)
      /\ FatalPropagation
      /\ raised = RaisedBy(i)

\* a Fatal error on the second attempt on a fallback model
C4_Witness ==
  \E i \in RegularIdx :
    /\ ~log[i].ok /\ Fatal(log[i].err)
    /\ log[i].pos = 2 /\ log[i].attempt = 2
    /\ FatalPropagation

\* ------------------------------------------------------------------------
\* C5
\* ------------------------------------------------------------------------

\* C5: every upstream call that fails with a Fatal error, the call without
\* response_format included, is the last call and its error is raised.
C5_NoFatalSwallowed ==
  \A i \in CallIdx :
    (~log[i].ok /\ Fatal(log[i].err)) =>
      /\ i = Len(log)
      /\ pc = "raised"
      /\ raised = RaisedBy(i)

\* ------------------------------------------------------------------------
\* C6
\* ------------------------------------------------------------------------

\* C6: an invocation that has ended has returned a completion, or raised the
\* exhaustion failure with an error one of its upstream calls raised, or let a
\* Fatal upstream error through.
C6_ThreeOutcomes ==
  pc \in {"returned", "raised"} =>
    \/ Returned /\ result # NoResult
    \/ ExhaustionFailure /\ \E i \in FailedIdx : raised = RaisedBy(i)
    \/ FatalPropagation /\ Fatal(raised.text) /\ \E i \in FailedIdx : raised = RaisedBy(i)

\* ------------------------------------------------------------------------
\* C7
\* ------------------------------------------------------------------------

\* C7: a regular call that succeeds is the last event of the invocation, and
\* its completion is what the invocation returns.
C7_SuccessReturnsAtOnce ==
  \A i \in RegularIdx :
    log[i].ok =>
      /\ i = Len(log)
      /\ Returned
      /\ result = Completion("chatcmpl", CallNo(i), log[i].out)

\* a success on the second attempt on the last fallback model, after a sleep
C7_Witness ==
  \E i \in RegularIdx :
    /\ log[i].ok /\ log[i].pos = 3 /\ log[i].attempt = 2
    /\ Returned
    /\ SleepIdx # {}

\* ------------------------------------------------------------------------
\* C8
\* ------------------------------------------------------------------------

\* C8: a regular attempt that fails with a malformed-output error whose
\* failed_generation can be repaired is the last event of the invocation, which
\* returns a synthetic completion holding the repaired text.
C8_RepairReturnsSynthetic ==
  \A i \in RegularIdx :
    (~log[i].ok /\ HasJsonMarker(log[i].err) /\ Repairable(log[i].err)) =>
      /\ i = Len(log)
      /\ Returned
      /\ result.id = "repaired"
      /\ ContentOf(result) = _repair_json(log[i].err.fg)

\* a repair on the second attempt on a fallback model, giving the array
C8_Witness ==
  \E i \in RegularIdx :
    /\ ~log[i].ok /\ Repairable(log[i].err)
    /\ log[i].pos = 2 /\ log[i].attempt = 2
    /\ Returned
    /\ ContentOf(result) = <<"[", DQ, ",", DQ, "]">>

\* ------------------------------------------------------------------------
\* C9
\* ------------------------------------------------------------------------

\* after the failed call log[i] the loop has left the model: no sleep follows
\* it, no later event belongs to its place of the trial order, and the next
\* call is the first attempt on the next place
LeavesModelAt(i) ==
  /\ pc \notin {"sleep", "create_no_fmt"} \/ i < Len(log)
  /\ \A j \in (i + 1)..Len(log) : log[j].pos > log[i].pos
  /\ i < Len(log) =>
       /\ log[i + 1].type = "call"
       /\ log[i + 1].pos = log[i].pos + 1
       /\ log[i + 1].model = models_to_try[log[i].pos + 1]
       /\ log[i + 1].attempt = 1
  /\ (i = Len(log) /\ pc = "create") => (mi = log[i].pos + 1 /\ attempt = 1)

RateLimitedThenSuccess(k) ==
  /\ Cardinality(CallIdx) = k + 1
  /\ \A i \in CallIdx :
       /\ log[i].pos = 1 /\ ~log[i].relaxed
       /\ log[i].attempt <= k =>
            (~log[i].ok /\ RateLimited(log[i].err) /\ log[i].err.hint = NoHint)
       /\ log[i].attempt = k + 1 => log[i].ok

\* the durations of the sleeps, in order
SleepDurations == [n \in 1..Len(SelectSeq(log, LAMBDA ev : ev.type = "sleep")) |->
                     SelectSeq(log, LAMBDA ev : ev.type = "sleep")[n].dur]

ReturnsPrimarySuccess(k) ==
  /\ Returned
  /\ result.id = "chatcmpl" /\ result.call = k + 1
  /\ \A i \in CallIdx : log[i].model = PrimaryOfRequest /\ log[i].pos = 1

CauseOf(i) == log[i - 1].err
\* the seconds a wait hint words: 60 * m + s, the minutes optional
HintedSeconds(h) == IF Len(h) = 2 THEN 60 * h[1] + h[2] ELSE h[1]

\* C11: a sleep after a rate-limit error that words a wait hint of m minutes
\* (optional) and s seconds lasts min(60 * m + s, 120) seconds, 65 for
\* "try again in 1m5s" and 120 for "try again in 150s"; no sleep, done or
\* pending, is longer than 120 seconds.
C11_HintedWaitClamped ==
  /\ \A i \in SleepIdx :
       /\ log[i].dur <= 120
       /\ CauseOf(i).hint # NoHint =>
            log[i].dur = Min(HintedSeconds(CauseOf(i).hint), 120)
       /\ CauseOf(i).hint = <<1, 5>> => log[i].dur = 65
       /\ CauseOf(i).hint = <<150>> => log[i].dur = 120
  /\ pc = "sleep" =>
       /\ wait <= 120
       /\ log[Len(log)].err.hint # NoHint =>
            wait = Min(HintedSeconds(log[Len(log)].err.hint), 120)

\* a sleep of 65 seconds after "try again in 1m5s" and one of 120 seconds
\* after "try again in 150s"
C11_Witness ==
  /\ \E i \in SleepIdx : CauseOf(i).hint = <<1, 5>> /\ log[i].dur = 65
  /\ \E i \in SleepIdx : CauseOf(i).hint = <<150>> /\ log[i].dur = 120

\* ------------------------------------------------------------------------
\* C12
\* ------------------------------------------------------------------------

\* the 1-based number, among the regular attempts on the model of the trial
\* order's place log[i].pos, of the last one up to log[i]
AttemptNo(i) ==
  Cardinality({k \in 1..i : /\ log[k].type = "call" /\ ~log[k].relaxed
                            /\ log[k].pos = log[i].pos})

ConstrainedReturn == Returned /\ create_kwargs.response_format
\* the return paths, by the last upstream call of the history
LastCall == log[Len(log)]
NormalSuccess == LastCall.ok /\ ~LastCall.relaxed
RepairSuccess == ~LastCall.ok /\ ~LastCall.relaxed
RelaxedSuccess == LastCall.ok /\ LastCall.relaxed

C14_SyntheticShape ==
  (Returned /\ RepairSuccess) =>
    /\ DOMAIN result = DOMAIN Completion("chatcmpl", 1, JsonContent)
    /\ Len(result.choices) = 1
    /\ DOMAIN result.choices[1] = DOMAIN Choice(JsonContent)
    /\ result.choices[1].message.content = _repair_json(LastCall.err.fg)
    /\ result.choices[1].message.content # <<>>
    /\ JsonLoads(result.choices[1].message.content)

\* a repair on the primary model's first attempt: the set literal of the
\* failed generation is returned as an array
C14_Witness ==
  /\ Returned /\ RepairSuccess
  /\ Len(log) = 1
  /\ LastCall.err.fg = SetPayload
  /\ result.choices[1].message.content = <<"[", DQ, ",", DQ, "]">>

\* ------------------------------------------------------------------------
\* C15
\* ------------------------------------------------------------------------

C16_RepairIdempotent ==
  pc = "repaired_again" => twice = once

\* ------------------------------------------------------------------------
\* C17
\* ------------------------------------------------------------------------

\* what a thread's invocation was given: its request, and the outcomes of its
\* upstream calls in order
RequestOf(f) == <<f.create_kwargs, f.max_retries>>
OutcomesOf(f) ==
  LET calls == SelectSeq(f.log, LAMBDA ev : ev.type = "call")
  IN [n \in 1..Len(calls) |-> <<calls[n].ok, calls[n].err, calls[n].out>>]

\* two invocations that ended, given the same request and the same outcomes
\* of their upstream calls, made the same calls, slept the same sleeps and
\* ended the same way
SameInSameOut ==
  \A t \in Threads : \A u \in Threads :
    (/\ Ended(Local(t)) /\ Ended(Local(u))
     /\ RequestOf(Local(t)) = RequestOf(Local(u))
     /\ OutcomesOf(Local(t)) = OutcomesOf(Local(u)))
      => Local(t) = Local(u)

\* a step changes the locals of the running thread only, and handing the
\* interpreter to another thread changes no thread's locals
LocalsUntouched ==
  \A t \in Threads : (t # cur \/ cur' # cur) => Local(t)' = Local(t)

\* C17: invocations interleaved in any way are independent: what an invocation
\* calls, sleeps and returns or raises is a function of its request and of the
\* outcomes of its own upstream calls, and no step of one invocation changes
\* what another one reads.
C17_InvocationsIndependent == []SameInSameOut /\ [][LocalsUntouched]_vars

\* both invocations under way at once: one in its back-off sleep, the other
\* between a failed repair and the answer to the call without response_format
C17_Witness ==
  /\ \E t \in Threads : Local(t).pc = "sleep" /\ Local(t).mi = 2
  /\ \E u \in Threads : Local(u).pc = "create_no_fmt" /\ Local(u).mi = 3

\* ------------------------------------------------------------------------
\* C18
\* ------------------------------------------------------------------------

\* thread u can take its next step: it runs and a step is enabled, or the
\* scheduler can let it run
CanStep(u) == IF u = cur THEN ENABLED ConcStep ELSE ENABLED Switch(u)

\* while a thread is in time.sleep every other thread that has not ended can
\* take its next step
SleepBlocksNoOther ==
  \A t \in Threads :
    Local(t).pc = "sleep" =>
      \A u \in Threads \ {t} : ~Ended(Local(u)) => CanStep(u)

AllEnded == \A t \in Threads : Ended(Local(t))

\* C18: a back-off sleep of one invocation keeps no other invocation from its
\* next step, and every invocation ends (returns or raises).
C18_NoBlockingNoStarvation == []SleepBlocksNoOther /\ <>AllEnded

\* a thread in its back-off sleep, and another one that ended after it ran
\* into a rate limit itself
C18_Witness ==
  \E t \in Threads : \E u \in Threads \ {t} :
    /\ Local(t).pc = "sleep"
    /\ Ended(Local(u))
    /\ \E i \in 1..Len(Local(u).log) : Local(u).log[i].type = "sleep"

\* ------------------------------------------------------------------------
\* C19
\* ------------------------------------------------------------------------

CancelIdx == {i \in 1..Len(log) : log[i].type = "cancel"}

\* C19: a cancellation raised during a back-off sleep is the last event of
\* the invocation (no upstream call, no sleep after it), and the cancellation
\* is what the caller gets: no completion, no upstream error.
C19_CancelAbortsLoop ==
  \A i \in CancelIdx :
    /\ i = Len(log)
    /\ log[i - 1].type = "call" /\ RateLimited(log[i - 1].err)
    /\ pc = "raised"
    /\ raised.type = "Cancelled"
    /\ result = NoResult

\* a cancellation in the sleep after a rate limit on the first fallback model,
\* with a model of the trial order still untried
C19_Witness ==
  \E i \in CancelIdx :
    /\ log[i].pos = 2
    /\ log[i].pos < Len(models_to_try)
    /\ SleepIdx # {}
    /\ pc = "raised" /\ raised = Cancelled

\* ------------------------------------------------------------------------
\* C20
\* ------------------------------------------------------------------------

\* C20: no model is twice in the trial order, and the calls bound to a model
\* all belong to one place of the trial order (one run of attempts).
C20_TrialOrderHasNoDuplicates ==
  /\ \A i \in 1..Len(models_to_try) : \A j \in 1..Len(models_to_try) :
       models_to_try[i] = models_to_try[j] => i = j
  /\ \A i \in CallIdx : \A j \in CallIdx :
       log[i].model = log[j].model => log[i].pos = log[j].pos

\* ------------------------------------------------------------------------
\* C21
\* ------------------------------------------------------------------------

\* the upstream call that follows log[i], 0 when there is none
NextCallAfter(i) ==
  LET later == {j \in CallIdx : j > i} IN
  IF later = {} THEN 0 ELSE CHOOSE j \in later : \A k \in later : j <= k

\* the regular attempts on the model of the trial order's place pos
AttemptsAt(pos) == {i \in RegularIdx : log[i].pos = pos}
\* the place pos has had max_retries attempts, all failed with a rate limit
SpentOnRateLimits(pos) ==
  /\ Cardinality(AttemptsAt(pos)) = max_retries
  /\ \A i \in AttemptsAt(pos) : ~log[i].ok /\ RateLimited(log[i].err)

\* after a rate limit on attempt n < max_retries the next call is bound to
\* the same model
RateLimitRetriesSameModel ==
  \A i \in RegularIdx :
    (~log[i].ok /\ RateLimited(log[i].err) /\ AttemptNo(i) < max_retries
       /\ NextCallAfter(i) # 0)
      => /\ log[NextCallAfter(i)].model = log[i].model
         /\ ~log[NextCallAfter(i)].relaxed

\* no model gets more than max_retries regular attempts
AtMostMaxAttemptsAModel ==
  \A i \in RegularIdx :
    Cardinality({j \in RegularIdx : log[j].model = log[i].model}) <= max_retries

\* a model spent on rate limits is followed by the next model of the trial
\* order, the last one by the exhaustion failure
SpentModelIsFollowed ==
  \A pos \in 1..Len(models_to_try) :
    LET last == CHOOSE i \in AttemptsAt(pos) : \A k \in AttemptsAt(pos) : k <= i IN
    (SpentOnRateLimits(pos) /\ max_retries >= 1) =>
      /\ (NextCallAfter(last) # 0) =>
           /\ pos < Len(models_to_try)
           /\ log[NextCallAfter(last)].model = models_to_try[pos + 1]
           /\ log[NextCallAfter(last)].attempt = 1
      /\ (pos = Len(models_to_try) /\ pc # "sleep") => ExhaustionFailure

\* C21: after a rate limit on attempt n < max_retries the next upstream call
\* is bound to the same model; no model gets more than max_retries regular
\* attempts; a model whose max_retries attempts all failed with rate limits is
\* followed by the next model of the trial order, the last model by the
\* exhaustion failure.
C21_RateLimitedRetriesAndMovesOn ==
  /\ RateLimitRetriesSameModel
  /\ AtMostMaxAttemptsAModel
  /\ SpentModelIsFollowed

\* ------------------------------------------------------------------------
\* C22
\* ------------------------------------------------------------------------

\* C22: a sleep, done or pending, follows a rate limit on an attempt that is
\* not the model's last, and the call after it is bound to the same place of
\* the trial order; a place has at most max_retries - 1 sleeps.
C22_SleepsOnlyBetweenAttempts ==
  /\ \A i \in SleepIdx :
       /\ AttemptNo(i) < max_retries
       /\ NextCallAfter(i) # 0 => log[NextCallAfter(i)].pos = log[i].pos
  /\ pc = "sleep" => AttemptNo(Len(log)) < max_retries
  /\ \A pos \in 1..Len(models_to_try) :
       max_retries >= 1 =>
         Cardinality({i \in SleepIdx : log[i].pos = pos}) <= max_retries - 1

\* ------------------------------------------------------------------------
\* C23
\* ------------------------------------------------------------------------

\* a regular attempt that failed with a malformed-output error no repair mends
UnrepairedIdx ==
  {i \in RegularIdx :
     ~log[i].ok /\ HasJsonMarker(log[i].err) /\ ~Repairable(log[i].err)}

RelaxedIdx == {i \in CallIdx : log[i].relaxed}

\* the extra call comes next in the history, on the same model, with the
\* constraint removed; it is pending exactly while nothing follows
RelaxedRetryFollowsAtOnce ==
  \A i \in UnrepairedIdx :
    log[i].fmt =>
      /\ i = Len(log) => pc = "create_no_fmt"
      /\ i < Len(log) =>
           /\ log[i + 1].type = "call" /\ log[i + 1].relaxed
           /\ log[i + 1].model = log[i].model
           /\ log[i + 1].pos = log[i].pos
           /\ ~log[i + 1].fmt
      /\ Cardinality({j \in RelaxedIdx : j > i /\ log[j].pos = log[i].pos}) <= 1

RelaxedSuccessIsReturned ==
  \A j \in RelaxedIdx :
    log[j].ok =>
      /\ j = Len(log) /\ Returned
      /\ result = Completion("chatcmpl", CallNo(j), log[j].out)

RelaxedOnlyAfterUnrepaired ==
  /\ \A j \in RelaxedIdx : (j - 1) \in UnrepairedIdx /\ log[j - 1].fmt
  /\ pc = "create_no_fmt" => Len(log) \in UnrepairedIdx /\ log[Len(log)].fmt

RelaxedFailureLeavesPlace ==
  \A j \in RelaxedIdx :
    ~log[j].ok => \A k \in CallIdx : k > j => log[k].pos > log[j].pos

RelaxedFailureLeavesModel ==
  \A j \in RelaxedIdx :
    ~log[j].ok => \A k \in CallIdx : k > j => log[k].model # log[j].model

OneRelaxedCallAModel ==
  \A j, k \in RelaxedIdx : log[j].model = log[k].model => j = k

\* C23: an unrepaired malformed-output failure of a constrained request is
\* followed at once by one call on the same model without the constraint;
\* its success is returned, its failure ends all calls on that model, and a
\* model gets at most one such call in an invocation.
C23_OneRelaxedRetryThenLeave ==
  /\ RelaxedRetryFollowsAtOnce
  /\ RelaxedOnlyAfterUnrepaired
  /\ RelaxedSuccessIsReturned
  /\ RelaxedFailureLeavesModel
  /\ OneRelaxedCallAModel

\* ------------------------------------------------------------------------
\* C24
\* ------------------------------------------------------------------------

\* after an unrepaired failure of an unconstrained request the next event is
\* the first attempt on the next place of the trial order
UnconstrainedSkipsToNextPlace ==
  \A i \in UnrepairedIdx :
    ~log[i].fmt =>
      /\ i = Len(log) => pc \in {"create", "raised"}
      /\ i < Len(log) =>
           /\ log[i + 1].type = "call" /\ ~log[i + 1].relaxed
           /\ log[i].pos < Len(models_to_try)
           /\ log[i + 1].pos = log[i].pos + 1
           /\ log[i + 1].model = models_to_try[log[i].pos + 1]
           /\ log[i + 1].attempt = 1

UnconstrainedLeavesModel ==
  \A i \in UnrepairedIdx :
    ~log[i].fmt => \A k \in CallIdx : k > i => log[k].model # log[i].model

\* C24: an unrepaired malformed-output failure of a request without the
\* constraint gets no relaxed retry and no sleep; the next call is the first
\* attempt on the next model and the failed model is never called again.
C24_UnconstrainedSkipsModel ==
  /\ UnconstrainedSkipsToNextPlace
  /\ UnconstrainedLeavesModel

\* ------------------------------------------------------------------------
\* C25
\* ------------------------------------------------------------------------

\* what follows the failed regular attempt log[i], by the class of its error
FollowsAsMalformed(i) ==
  IF Repairable(log[i].err)
  THEN /\ i = Len(log) /\ Returned
       /\ result.id = "repaired"
       /\ ContentOf(result) = _repair_json(log[i].err.fg)
  ELSE /\ i = Len(log) => pc \in {"create_no_fmt", "create", "raised"}
       /\ i = Len(log) /\ pc = "raised" => ExhaustionFailure
       /\ i < Len(log) =>
            /\ log[i + 1].type = "call"
            /\ log[i + 1].relaxed <=> log[i].fmt
            /\ ~log[i + 1].relaxed => log[i + 1].pos = log[i].pos + 1

FollowsAsQuotaExhausted(i) ==
  /\ i = Len(log) => pc \in {"create", "raised"}
  /\ i = Len(log) /\ pc = "raised" => ExhaustionFailure
  /\ i < Len(log) =>
       /\ log[i + 1].type = "call" /\ ~log[i + 1].relaxed
       /\ log[i + 1].pos = log[i].pos + 1

FollowsAsRateLimited(i) ==
  /\ i = Len(log) => pc = "sleep"
  /\ i < Len(log) => log[i + 1].type = "sleep"

FollowsAsFatal(i) ==
  /\ i = Len(log)
  /\ FatalPropagation
  /\ raised = RaisedBy(i)

\* C25: a failed regular attempt is handled by the first class its error text
\* matches: malformed output when a json marker is present, whatever else is
\* (repair, no sleep); else quota exhausted or rate limited by the daily
\* marker; else fatal, raised at once.
C25_ClassifiedByPrecedence ==
  \A i \in RegularIdx :
    ~log[i].ok =>
      LET e == log[i].err IN
      /\ HasJsonMarker(e) => FollowsAsMalformed(i)
      /\ (~HasJsonMarker(e) /\ HasRateMarker(e) /\ HasQuotaMarker(e))
           => FollowsAsQuotaExhausted(i)
      /\ (~HasJsonMarker(e) /\ HasRateMarker(e) /\ ~HasQuotaMarker(e))
           => FollowsAsRateLimited(i)
      /\ (~HasJsonMarker(e) /\ ~HasRateMarker(e)) => FollowsAsFatal(i)

\* every class has been met in one invocation, the malformed-output one with
\* rate-limit and quota markers in its text, and a repair of a text that also
\* holds a rate-limit marker has been returned
C25_Witness ==
  /\ Returned
  /\ HasJsonMarker(LastCall.err) /\ HasRateMarker(LastCall.err)
  /\ Repairable(LastCall.err)
  /\ \E i \in RegularIdx :
       /\ ~log[i].ok /\ HasJsonMarker(log[i].err)
       /\ HasRateMarker(log[i].err) /\ HasQuotaMarker(log[i].err)
  /\ \E i \in RegularIdx : ~log[i].ok /\ RateLimited(log[i].err)

\* ------------------------------------------------------------------------
\* C26
\* ------------------------------------------------------------------------

\* the text after un-escaping, set-literal normalization and comma stripping
Normalized(text) == StripTrailingCommas(_set_to_array(Unescape(text)))

Apostrophes(t) == SelectSeq(t, LAMBDA tok : tok \in {APO, SQ})

\* C26: when the normalized text parses, the repair returns the serialization
\* of that parse, strings with apostrophes as they were: the single-quote
\* pass has not touched it.
C26_QuotePassOnlyAfterStrictParseFails ==
  (pc \in {"repaired", "repaired_again"} /\ JsonLoads(Normalized(payload))) =>
    /\ once = JsonDumps(Normalized(payload))
    /\ Apostrophes(once) = Apostrophes(Normalized(payload))

\* a text that needed normalizing, holds a string with an apostrophe and parses
C26_Witness ==
  /\ pc = "repaired"
  /\ JsonLoads(Normalized(payload))
  /\ Normalized(payload) # payload
  /\ Apostrophes(Normalized(payload)) # <<>>
  /\ once # NoText

\* ------------------------------------------------------------------------
\* C27
\* ------------------------------------------------------------------------

NoFieldFound(t) == ~t.has_fg \/ t.fg = <<>>
EveryPassFails(t) == t.has_fg /\ t.fg # <<>> /\ _repair_json(t.fg) = NoText

\* C27: a malformed-output error without a failed generation (no field, or
\* an empty one), or whose generation no pass repairs, has no repair: nothing
\* synthetic is returned, and the call without the constraint comes next when
\* the constraint was set, the next model's first attempt when it was not.
C27_NoRepairTakesFailedBranch ==
  \A i \in RegularIdx :
    (~log[i].ok /\ HasJsonMarker(log[i].err)
       /\ (NoFieldFound(log[i].err) \/ EveryPassFails(log[i].err))) =>
      /\ _try_repair_failed_json(log[i].err) = NoResult
      /\ (Returned /\ result.id = "repaired") =>
           i < Len(log) /\ Repairable(LastCall.err)
      /\ i = Len(log) =>
           pc \in (IF log[i].fmt THEN {"create_no_fmt"} ELSE {"create", "raised"})
      /\ i < Len(log) =>
           /\ log[i + 1].type = "call"
           /\ IF log[i].fmt
              THEN log[i + 1].relaxed /\ log[i + 1].pos = log[i].pos
              ELSE ~log[i + 1].relaxed /\ log[i + 1].pos = log[i].pos + 1

\* the three cases in one invocation: no field, an empty field, a generation
\* that no pass repairs
C27_Witness ==
  /\ \E i \in RegularIdx : i < Len(log) /\ ~log[i].ok
       /\ HasJsonMarker(log[i].err) /\ ~log[i].err.has_fg
  /\ \E i \in RegularIdx : i < Len(log) /\ ~log[i].ok
       /\ log[i].err.has_fg /\ log[i].err.fg = <<>>
  /\ \E i \in RegularIdx : ~log[i].ok /\ EveryPassFails(log[i].err)
  /\ pc = "raised"

\* ------------------------------------------------------------------------
\* C28
\* ------------------------------------------------------------------------

\* the model the caller's request names, the primary one when it names none
RequestedModel ==
  IF create_kwargs.model = NoModel THEN PRIMARY_MODEL ELSE create_kwargs.model

\* once invoked, the caller's request is never assigned to
RequestKept == pc # "idle" => create_kwargs' = create_kwargs

\* the trial order is the requested model and the fallback list as configured
FallbacksAsConfigured ==
  pc # "idle" =>
    /\ models_to_try = <<RequestedModel>> \o FALLBACK_MODELS
    /\ FALLBACK_MODELS = <<"llama-3.1-8b-instant", "llama3-8b-8192">>

\* every regular attempt, made or pending, is bound to its place's model and
\* carries the constraint exactly when the caller's request does
RegularAttemptsAsRequested ==
  /\ \A i \in RegularIdx :
       /\ log[i].fmt = create_kwargs.response_format
       /\ log[i].model = models_to_try[log[i].pos]
  /\ pc = "create" =>
       /\ kwargs.response_format = create_kwargs.response_format
       /\ kwargs.model = models_to_try[mi]

\* C28: an invocation leaves the caller's request and the fallback list as
\* they were, and a retry without the constraint on one model does not carry
\* over: every regular attempt of the invocation carries the constraint the
\* request carries.
C28_RequestAndFallbacksUntouched ==
  /\ []FallbacksAsConfigured
  /\ []RegularAttemptsAsRequested
  /\ [][RequestKept]_vars

\* a constrained request after a retry without the constraint on one model
\* and a regular attempt on a later one, the invocation over
C28_Witness ==
  /\ pc \in {"returned", "raised"}
  /\ create_kwargs.response_format
  /\ \E j \in RelaxedIdx : \E i \in RegularIdx :
       i > j /\ log[i].pos > log[j].pos /\ log[i].fmt

\* ------------------------------------------------------------------------
\* C29
\* ------------------------------------------------------------------------

Running == pc \in {"create", "create_no_fmt", "sleep"}
Over == pc \in {"returned", "raised"}

CallBudget == Len(models_to_try) * (max_retries + 1)
SleepBudget == Len(models_to_try) * max_retries

\* the calls and sleeps of an invocation stay within their budgets, and an
\* invocation that is over has made a call
WithinBudgets ==
  (pc # "idle" /\ max_retries >= 1) =>
    /\ Cardinality(CallIdx) <= CallBudget
    /\ Cardinality(SleepIdx) <= SleepBudget
    /\ Len(log) = Cardinality(CallIdx) + Cardinality(SleepIdx)
    /\ Over => Cardinality(CallIdx) >= 1

\* a running invocation can always take its next step; one that is over
\* takes none
NeverStuck ==
  /\ Running => ENABLED Next
  /\ Over => ~ENABLED Next

\* every step of a running invocation is one more upstream call or sleep
EachStepIsACallOrSleep == Running => Len(log') = Len(log) + 1

\* C29: with max_retries >= 1 an invocation makes at least one and at most
\* M * (max_retries + 1) upstream calls and at most M * max_retries sleeps,
\* M the length of the trial order; each of its steps is one of them and it
\* is never stuck before it returns or raises, so it ends within
\* M * (2 * max_retries + 1) steps.
C29_TerminatesWithinBudgets ==
  /\ []WithinBudgets
  /\ []NeverStuck
  /\ [][EachStepIsACallOrSleep]_vars

\* an invocation that has spent its whole budget of calls, sleeps included
C29_Witness ==
  /\ Over
  /\ max_retries >= 2
  /\ Cardinality(CallIdx) = CallBudget
  /\ Cardinality(SleepIdx) >= 1

\* ------------------------------------------------------------------------
\* Orchestrator.handle_multiple_uploads(file_paths, file_types, user_id, scope)
\* on the one Orchestrator of app.py, called by the threads of the server,
\* one for each /upload request.  A step is what a thread does between two
\* accesses of self.multimodal_agent.source_diagrams.
\* ------------------------------------------------------------------------

\* self.multimodal_agent.source_diagrams = []: the attribute is bound to a new
\* list (the list numbered u)
ResetDiagrams(u, files) ==
  /\ upload[u].pc = "idle"
  /\ source_diagrams' = u
  /\ lists' = [lists EXCEPT ![u] = <<>>]
  /\ upload' = [upload EXCEPT ![u] = [IdleUpload EXCEPT !.pc = "processing",
                                                        !.files = files]]

\* process(...) of a file without a picture: the list is not touched
ProcessText(u) ==
  /\ upload[u].pc = "processing"
  /\ upload[u].done < Len(upload[u].files)
  /\ upload[u].files[upload[u].done + 1] = "text/plain"
  /\ upload' = [upload EXCEPT ![u].done = @ + 1]
  /\ UNCHANGED <<source_diagrams, lists>>

\* self.source_diagrams.extend(...): the attribute is read and extend bound
\* to that list before the argument, the extraction, is evaluated
LoadList(u) ==
  /\ upload[u].pc = "processing"
  /\ upload[u].done < Len(upload[u].files)
  /\ upload[u].files[upload[u].done + 1] # "text/plain"
  /\ upload' = [upload EXCEPT ![u].pc = "extracting", ![u].target = source_diagrams]
  /\ UNCHANGED <<source_diagrams, lists>>

\* the extraction is over: extend appends its diagrams to the list loaded
ExtendList(u) ==
  /\ upload[u].pc = "extracting"
  /\ lists' = [lists EXCEPT ![upload[u].target] =
                  @ \o DiagramsOf(u, upload[u].files, upload[u].done + 1)]
  /\ upload' = [upload EXCEPT ![u].pc = "processing", ![u].done = @ + 1]
  /\ UNCHANGED source_diagrams

\* the loop is over: the text is deduplicated, the three agents run, the
\* vector store is filled
Generate(u) ==
  /\ upload[u].pc = "processing"
  /\ upload[u].done = Len(upload[u].files)
  /\ upload' = [upload EXCEPT ![u].pc = "generated"]
  /\ UNCHANGED <<source_diagrams, lists>>

\* note_data reads the attribute and save_note stores the list's content
SaveNote(u) ==
  /\ upload[u].pc = "generated"
  /\ upload' = [upload EXCEPT ![u].pc = "saved", ![u].saved = lists[source_diagrams]]
  /\ UNCHANGED <<source_diagrams, lists>>

\* the returned dict reads the attribute again
ReturnResult(u) ==
  /\ upload[u].pc = "saved"
  /\ upload' = [upload EXCEPT ![u].pc = "returned",
                              ![u].returned = lists[source_diagrams]]
  /\ UNCHANGED <<source_diagrams, lists>>

UploadNext ==
  /\ \E u \in Uploads :
       \/ \E files \in FileLists : ResetDiagrams(u, files)
       \/ ProcessText(u)
       \/ LoadList(u)
       \/ ExtendList(u)
       \/ Generate(u)
       \/ SaveNote(u)
       \/ ReturnResult(u)
  /\ UNCHANGED <<pc, create_kwargs, max_retries, models_to_try, mi, kwargs, attempt,
                 last_exc, wait, result, raised, raised_at, log, payload, once,
                 twice, cur, frames>>

UploadSpec == Init /\ [][UploadNext]_vars

\* ------------------------------------------------------------------------
\* C30
\* ------------------------------------------------------------------------

\* the files of upload u that hold a picture
PictureFiles(u) ==
  {k \in 1..Len(upload[u].files) : upload[u].files[k] # "text/plain"}

\* ds holds one diagram for each picture file of upload u and nothing else
ExactlyOwnDiagrams(u, ds) ==
  /\ Len(ds) = Cardinality(PictureFiles(u))
  /\ {ds[i] : i \in 1..Len(ds)} = {[upload |-> u, file |-> k] : k \in PictureFiles(u)}

\* C30: the diagrams saved and the diagrams returned for an upload are
\* exactly those of its own files, whatever the other uploads reset or
\* append meanwhile.
C30_UploadsKeepOwnDiagrams ==
  \A u \in Uploads :
    /\ upload[u].pc \in {"saved", "returned"} => ExactlyOwnDiagrams(u, upload[u].saved)
    /\ upload[u].pc = "returned" => ExactlyOwnDiagrams(u, upload[u].returned)

====
